---- MODULE Spec2Model ----
(***************************************************************************)
(* Selective-kernel ResNet blocks and factories (timm/models/sknet.py).    *)
(*                                                                         *)
(* A Python dict is a function with a domain of strings.  A layer built by *)
(* a collaborator (ConvBnAct, SelectiveKernelConv, SEModule, ResNet) is    *)
(* the record of the arguments the block or factory passed to it.          *)
(* Python's None is the string "None" for a layer type or hook, the        *)
(* integer 0 for first_dilation (0 and None are both falsy), and a record  *)
(* with is_none = TRUE for the optional sk_kwargs dict.                    *)
(***************************************************************************)
EXTENDS Integers, Sequences, FiniteSets, TLC

VARIABLES block, params, params0, zeroed, pc, trace, calls, wcalc

vars == <<block, params, params0, zeroed, pc, trace, calls, wcalc>>

---------------------------------------------------------------------------
(* Bounds of the explored argument space.                                  *)

MaxInplanes == 2
MaxPlanes == 4
MaxStride == 2
MaxDilation == 2
MaxCardinality == 3
MaxBaseWidthUnits == 3
MaxReduceFirst == 2

---------------------------------------------------------------------------
(* Dicts and keyword calls.                                                *)

EmptyDict == [k \in {} |-> 0]

NoneDict == [is_none |-> TRUE, items |-> EmptyDict]

SomeDict(d) == [is_none |-> FALSE, items |-> d]

\* `x or {}` on an optional dict: None and the empty dict are both falsy.
OrEmpty(x) ==
    IF x.is_none \/ DOMAIN x.items = {} THEN EmptyDict ELSE x.items

\* f(k1=v1, **d1, **d2): a key given twice raises TypeError.
KeywordClash(explicit, d1, d2) ==
    \/ DOMAIN explicit \cap DOMAIN d1 # {}
    \/ DOMAIN explicit \cap DOMAIN d2 # {}
    \/ DOMAIN d1 \cap DOMAIN d2 # {}

Keywords(explicit, d1, d2) == explicit @@ d1 @@ d2

NoLayer == [type |-> "None"]

Layer(type, in_channels, out_channels, kwargs) ==
    [type |-> type, in_channels |-> in_channels,
     out_channels |-> out_channels, kwargs |-> kwargs]

---------------------------------------------------------------------------
(* Block construction.                                                     *)

BasicExpansion == 1

BottleneckExpansion == 4

\* conv_kwargs = dict(drop_block=..., act_layer=..., norm_layer=...)
ConvKwargs(a) ==
    [drop_block |-> a.drop_block, act_layer |-> a.act_layer,
     norm_layer |-> a.norm_layer]

\* Bug: the activation of the last stage is left enabled.
ActKept(conv_kwargs) == conv_kwargs

\* conv_kwargs['act_layer'] = None
ActDisabled(conv_kwargs) == [conv_kwargs EXCEPT !.act_layer = "None"]

\* Bug: the base_width assertion is left out.
BasicPreconditionCardinalityOnly(cardinality, base_width) ==
    cardinality = 1

\* The two assert statements of SelectiveKernelBasic.__init__.
BasicPrecondition(cardinality, base_width) ==
    cardinality = 1 /\ base_width = 64

FirstPlanes(n, reduce_first) == n \div reduce_first

\* Bug: the expansion factor is forgotten.
OutPlanesUnexpanded(planes, expansion) == planes

OutPlanes(planes, expansion) == planes * expansion

\* first_dilation = first_dilation or dilation
FirstDilation(first_dilation, dilation) ==
    IF first_dilation = 0 THEN dilation ELSE first_dilation

\* Integers beyond the machine word and floats: a non-negative number is the
\* set of the positions of the one bits of its binary expansion (negative
\* positions are fractional bits), so 2^60 + 64 is {60, 6}.
MaxIntBit == 20

Bits(n) == {i \in 0..MaxIntBit : (n \div (2 ^ i)) % 2 = 1}

RECURSIVE ToInt(_)
ToInt(S) ==
    IF S = {} THEN 0
    ELSE LET i == CHOOSE x \in S : TRUE IN 2 ^ i + ToInt(S \ {i})

BitMax(S) == CHOOSE m \in S : \A x \in S : x <= m

BitShift(S, k) == {i + k : i \in S}

RECURSIVE BitAdd(_, _)
BitAdd(S, T) ==
    IF T = {} THEN S
    ELSE BitAdd((S \cup T) \ (S \cap T), BitShift(S \cap T, 1))

RECURSIVE BitMul(_, _)
BitMul(S, T) ==
    IF T = {} THEN {}
    ELSE LET i == CHOOSE x \in T : TRUE
         IN  BitAdd(BitShift(S, i), BitMul(S, T \ {i}))

\* Significand width of a Python float (IEEE 754 binary64).
MantissaBits == 53

\* The float nearest to a number, ties to even: what int -> float conversion,
\* true division and float multiplication return for their exact result.
RoundToFloat(S) ==
    IF S = {} THEN {}
    ELSE LET cut == BitMax(S) - MantissaBits
             kept == {i \in S : i > cut}
             half == cut \in S
             sticky == \E i \in S : i < cut
             odd == (cut + 1) \in S
         IN  IF half /\ (sticky \/ odd) THEN BitAdd(kept, {cut + 1})
             ELSE kept

\* base_width / 64
TrueDiv64(B) == BitShift(RoundToFloat(B), -6)

\* planes * <float>: planes is converted to float, the product rounded.
FloatMul(P, F) == RoundToFloat(BitMul(RoundToFloat(P), F))

\* math.floor(<float>), an int
Floor(F) == {i \in F : i >= 0}

\* Bug: base_width / 64 taken as an integer division.
WidthBitsIntegerRatio(P, B, C) ==
    BitMul(BitMul(P, Floor(BitShift(B, -6))), C)

\* int(math.floor(planes * (base_width / 64)) * cardinality)
WidthBits(P, B, C) == BitMul(Floor(FloatMul(P, TrueDiv64(B))), C)

\* Bug: cardinality multiplied in before the floor.
WidthFloorLast(planes, base_width, cardinality) ==
    (planes * base_width * cardinality) \div 64

\* width, for arguments and a result that fit MaxIntBit bits.
Width(planes, base_width, cardinality) ==
    ToInt(WidthBits(Bits(planes), Bits(base_width), Bits(cardinality)))

\* SEModule(out_planes, planes // 4) if use_se else None
SE(a, out_planes) ==
    IF a.use_se
    THEN [type |-> "SEModule", channels |-> out_planes,
          reduction_channels |-> a.planes \div 4]
    ELSE NoLayer

\* act_layer(inplace=True)
Act(a) == [type |-> a.act_layer, inplace |-> TRUE]

\* The object before any attribute is assigned; status is how __init__ ended.
Unbuilt(a, status) ==
    [status |-> status, kind |-> a.kind, args |-> a,
     conv1 |-> NoLayer, conv2 |-> NoLayer, conv3 |-> NoLayer,
     se |-> NoLayer, act |-> NoLayer,
     downsample |-> "None", drop_path |-> "None", drop_block |-> "None",
     stride |-> 0, dilation |-> 0]

\* The attributes assigned after the convolution stages.
Attributes(obj, a, out_planes) ==
    [obj EXCEPT !.status = "ok",
                !.se = SE(a, out_planes),
                !.act = Act(a),
                !.downsample = a.downsample,
                !.stride = a.stride,
                !.dilation = a.dilation,
                !.drop_block = a.drop_block,
                !.drop_path = a.drop_path]

BasicConv1(a, first_planes, first_dilation, conv_kwargs, sk_kwargs) ==
    Layer("SelectiveKernelConv", a.inplanes, first_planes,
          Keywords([stride |-> a.stride, dilation |-> first_dilation],
                   conv_kwargs, sk_kwargs))

BasicConv2(a, first_planes, out_planes, conv_kwargs) ==
    Layer("ConvBnAct", first_planes, out_planes,
          Keywords([kernel_size |-> 3, dilation |-> a.dilation],
                   conv_kwargs, EmptyDict))

SelectiveKernelBasic(a) ==
    LET sk_kwargs == OrEmpty(a.sk_kwargs)
        conv_kwargs == ConvKwargs(a)
    IN  IF ~BasicPrecondition(a.cardinality, a.base_width)
        THEN Unbuilt(a, "AssertionError")
        ELSE
        LET first_planes == FirstPlanes(a.planes, a.reduce_first)
            out_planes == OutPlanes(a.planes, BasicExpansion)
            first_dilation == FirstDilation(a.first_dilation, a.dilation)
        IN  IF KeywordClash([stride |-> 0, dilation |-> 0], conv_kwargs, sk_kwargs)
            THEN Unbuilt(a, "TypeError")
            ELSE Attributes([Unbuilt(a, "init") EXCEPT
                         !.conv1 = BasicConv1(a, first_planes, first_dilation,
                                              conv_kwargs, sk_kwargs),
                         !.conv2 = BasicConv2(a, first_planes, out_planes,
                                              ActDisabled(conv_kwargs))],
                      a, out_planes)

\* Bug: the stride is applied at the 1x1 reduce stage too.
BottleneckConv1Strided(a, first_planes, conv_kwargs) ==
    Layer("ConvBnAct", a.inplanes, first_planes,
          Keywords([kernel_size |-> 1, stride |-> a.stride], conv_kwargs,
                   EmptyDict))

BottleneckConv1(a, first_planes, conv_kwargs) ==
    Layer("ConvBnAct", a.inplanes, first_planes,
          Keywords([kernel_size |-> 1], conv_kwargs, EmptyDict))

BottleneckConv2(a, first_planes, width, first_dilation, conv_kwargs, sk_kwargs) ==
    Layer("SelectiveKernelConv", first_planes, width,
          Keywords([stride |-> a.stride, dilation |-> first_dilation,
                    groups |-> a.cardinality],
                   conv_kwargs, sk_kwargs))

BottleneckConv3(a, width, out_planes, conv_kwargs) ==
    Layer("ConvBnAct", width, out_planes,
          Keywords([kernel_size |-> 1], conv_kwargs, EmptyDict))

SelectiveKernelBottleneck(a) ==
    LET sk_kwargs == OrEmpty(a.sk_kwargs)
        conv_kwargs == ConvKwargs(a)
        width == Width(a.planes, a.base_width, a.cardinality)
        first_planes == FirstPlanes(width, a.reduce_first)
        out_planes == OutPlanes(a.planes, BottleneckExpansion)
        first_dilation == FirstDilation(a.first_dilation, a.dilation)
        with1 == [Unbuilt(a, "init") EXCEPT
                    !.conv1 = BottleneckConv1(a, first_planes, conv_kwargs)]
    IN  IF KeywordClash([stride |-> 0, dilation |-> 0, groups |-> 0],
                        conv_kwargs, sk_kwargs)
        THEN [with1 EXCEPT !.status = "TypeError"]
        ELSE Attributes([with1 EXCEPT
                     !.conv2 = BottleneckConv2(a, first_planes, width,
                                               first_dilation, conv_kwargs,
                                               sk_kwargs),
                     !.conv3 = BottleneckConv3(a, width, out_planes,
                                               ActDisabled(conv_kwargs))],
                  a, out_planes)

NewBlock(a) ==
    IF a.kind = "Basic" THEN SelectiveKernelBasic(a)
    ELSE SelectiveKernelBottleneck(a)

---------------------------------------------------------------------------
(* Parameters of a built block and zero_init_last_bn.                      *)

\* The parameter tensors a stage owns.  A tensor is abstracted to one value:
\* 0 is the all-zeros tensor, any other value a tensor that is not all zeros.
StageParams(stage, layer) ==
    IF layer.type = "ConvBnAct"
    THEN {<<stage, "conv", "weight">>, <<stage, "bn", "weight">>,
          <<stage, "bn", "bias">>}
    ELSE IF layer.type = "SelectiveKernelConv"
    THEN {<<stage, "paths", "weight">>, <<stage, "attn", "weight">>}
    ELSE IF layer.type = "SEModule"
    THEN {<<stage, "fc", "weight">>}
    ELSE {}

ParamNames(obj) ==
    StageParams("conv1", obj.conv1) \cup StageParams("conv2", obj.conv2)
        \cup StageParams("conv3", obj.conv3) \cup StageParams("se", obj.se)

\* nn.init.zeros_(tensor)
Zeros == 0

\* SelectiveKernelBasic.zero_init_last_bn
BasicZeroInitLastBn(p) == [p EXCEPT ![<<"conv2", "bn", "weight">>] = Zeros]

\* Bug: the whole normalization layer is zeroed, bias included.
BottleneckZeroInitWholeBn(p) ==
    [p EXCEPT ![<<"conv3", "bn", "weight">>] = Zeros,
              ![<<"conv3", "bn", "bias">>] = Zeros]

\* SelectiveKernelBottleneck.zero_init_last_bn
BottleneckZeroInitLastBn(p) == [p EXCEPT ![<<"conv3", "bn", "weight">>] = Zeros]

---------------------------------------------------------------------------
(* Forward pass: the operations applied, in order.                         *)

\* What applying a conv + norm (+ activation) stage does to x.
StageOps(stage, layer) ==
    <<  <<stage, "conv">>, <<stage, "bn">> >>
        \o (IF layer.kwargs.act_layer # "None"
            THEN << <<stage, "act">> >> ELSE <<>>)

\* if self.<hook> is not None: apply it
Optional(present, op) == IF present THEN << <<"block", op>> >> ELSE <<>>

---------------------------------------------------------------------------
(* Arguments the blocks are constructed with.                              *)

Kinds == {"Basic", "Bottleneck"}

\* The selective-kernel sub-configurations of the factories, None, the empty
\* dict, and one that repeats a keyword the block passes itself.
SkKwargsChoices ==
    {NoneDict, SomeDict(EmptyDict),
     SomeDict([min_attn_channels |-> 16]),
     SomeDict([min_attn_channels |-> 16, split_input |-> TRUE]),
     SomeDict([keep_3x3 |-> FALSE]),
     SomeDict([stride |-> 2])}

BaseWidths == {32 * k : k \in 1..MaxBaseWidthUnits}

\* Channel and geometry arguments vary; the hooks keep their defaults.
ChannelArgs ==
    [kind : Kinds, inplanes : 1..MaxInplanes, planes : 1..MaxPlanes,
     stride : 1..MaxStride, downsample : {"None"},
     cardinality : 1..MaxCardinality, base_width : BaseWidths,
     use_se : BOOLEAN, sk_kwargs : SkKwargsChoices,
     reduce_first : 1..MaxReduceFirst, dilation : 1..MaxDilation,
     first_dilation : 0..MaxDilation, drop_block : {"None"},
     drop_path : {"None"}, act_layer : {"ReLU"},
     norm_layer : {"BatchNorm2d"}]

\* Hooks and layer types vary; channels and geometry keep their defaults.
HookArgs ==
    [kind : Kinds, inplanes : {MaxPlanes}, planes : {MaxPlanes},
     stride : {1}, downsample : {"None", "Downsample"},
     cardinality : {1}, base_width : {64},
     use_se : BOOLEAN, sk_kwargs : {NoneDict, SomeDict([keep_3x3 |-> FALSE])},
     reduce_first : {1}, dilation : {1},
     first_dilation : {0}, drop_block : {"None", "DropBlock2d"},
     drop_path : {"None", "DropPath"}, act_layer : {"ReLU", "SiLU"},
     norm_layer : {"BatchNorm2d"}]

\* Values of a parameter tensor after the collaborators' initialisation.
MaxParamValue == 1

ParamValues == 0..MaxParamValue

---------------------------------------------------------------------------
(* State.                                                                  *)

NoBlock == [status |-> "none"]

NoWidth ==
    [planes |-> {}, base_width |-> {}, cardinality |-> {}, done |-> FALSE,
     width |-> {}]

Factories == {"skresnet26d", "skresnet18", "sksresnet18"}

NoCall == [pc |-> "none"]

InitBlock ==
    /\ block = NoBlock
    /\ params = EmptyDict
    /\ params0 = EmptyDict
    /\ zeroed = FALSE
    /\ pc = "idle"
    /\ trace = <<>>
    /\ calls = [f \in Factories |-> NoCall]
    /\ wcalc = NoWidth

\* block = Block(**a), the collaborators leaving the parameters at p.
Construct(a, p) ==
    /\ block' = NewBlock(a)
    /\ params' = p
    /\ params0' = p
    /\ UNCHANGED <<zeroed, pc, trace, calls, wcalc>>

ConstructChannels ==
    /\ block = NoBlock
    /\ \E a \in ChannelArgs :
        Construct(a, [n \in ParamNames(NewBlock(a)) |-> 1])

ConstructFresh ==
    /\ block = NoBlock
    /\ \E a \in HookArgs :
        /\ a.drop_block = "None" /\ a.act_layer = "ReLU"
        /\ a.downsample = "None" /\ a.drop_path = "None"
        /\ \E p \in [ParamNames(NewBlock(a)) -> ParamValues] : Construct(a, p)

ConstructHooks ==
    /\ block = NoBlock
    /\ \E a \in HookArgs :
        Construct(a, [n \in ParamNames(NewBlock(a)) |-> 1])

\* block.zero_init_last_bn()
ZeroInitLastBn ==
    /\ block.status = "ok"
    /\ params' = IF block.kind = "Basic" THEN BasicZeroInitLastBn(params)
                 ELSE BottleneckZeroInitLastBn(params)
    /\ zeroed' = TRUE
    /\ UNCHANGED <<block, params0, pc, trace, calls, wcalc>>

---------------------------------------------------------------------------
(* block.forward(x), one action per statement.                             *)

\* residual = x
ForwardEnter ==
    /\ block.status = "ok"
    /\ pc \in {"idle", "done"}
    /\ trace' = <<>>
    /\ pc' = "conv1"
    /\ UNCHANGED <<block, params, params0, zeroed, calls, wcalc>>

\* x = self.conv1(x)
ForwardConv1 ==
    /\ pc = "conv1"
    /\ trace' = trace \o StageOps("conv1", block.conv1)
    /\ pc' = "conv2"
    /\ UNCHANGED <<block, params, params0, zeroed, calls, wcalc>>

\* x = self.conv2(x)
ForwardConv2 ==
    /\ pc = "conv2"
    /\ trace' = trace \o StageOps("conv2", block.conv2)
    /\ pc' = IF block.kind = "Bottleneck" THEN "conv3" ELSE "se"
    /\ UNCHANGED <<block, params, params0, zeroed, calls, wcalc>>

\* x = self.conv3(x)
ForwardConv3 ==
    /\ pc = "conv3"
    /\ trace' = trace \o StageOps("conv3", block.conv3)
    /\ pc' = "se"
    /\ UNCHANGED <<block, params, params0, zeroed, calls, wcalc>>

\* if self.se is not None: x = self.se(x)
ForwardSE ==
    /\ pc = "se"
    /\ trace' = trace \o Optional(block.se # NoLayer, "se")
    /\ pc' = "drop_path"
    /\ UNCHANGED <<block, params, params0, zeroed, calls, wcalc>>

\* if self.drop_path is not None: x = self.drop_path(x)
ForwardDropPath ==
    /\ pc = "drop_path"
    /\ trace' = trace \o Optional(block.drop_path # "None", "drop_path")
    /\ pc' = "downsample"
    /\ UNCHANGED <<block, params, params0, zeroed, calls, wcalc>>

\* if self.downsample is not None: residual = self.downsample(residual)
ForwardDownsample ==
    /\ pc = "downsample"
    /\ trace' = trace \o Optional(block.downsample # "None", "downsample")
    /\ pc' = "add"
    /\ UNCHANGED <<block, params, params0, zeroed, calls, wcalc>>

\* x += residual
ForwardAdd ==
    /\ pc = "add"
    /\ trace' = Append(trace, <<"block", "add">>)
    /\ pc' = "act"
    /\ UNCHANGED <<block, params, params0, zeroed, calls, wcalc>>

\* x = self.act(x); return x
ForwardAct ==
    /\ pc = "act"
    /\ trace' = Append(trace, <<"block", "act">>)
    /\ pc' = "done"
    /\ UNCHANGED <<block, params, params0, zeroed, calls, wcalc>>

---------------------------------------------------------------------------
(* Specifications of the blocks.                                           *)

Next == ConstructChannels

Spec == InitBlock /\ [][Next]_vars

NextInit == ConstructFresh \/ ZeroInitLastBn

SpecInit == InitBlock /\ [][NextInit]_vars

NextForward ==
    \/ ConstructHooks
    \/ ForwardEnter
    \/ ForwardConv1
    \/ ForwardConv2
    \/ ForwardConv3
    \/ ForwardSE
    \/ ForwardDropPath
    \/ ForwardDownsample
    \/ ForwardAdd
    \/ ForwardAct

SpecForward == InitBlock /\ [][NextForward]_vars

---------------------------------------------------------------------------
(* The bottleneck width over integers of any size.                         *)

MaxHighBit == 60
MaxLow == 65

\* The small channel counts, and integers with a high bit and a low part.
PlanesInputs ==
    {Bits(n) : n \in 1..MaxPlanes}
        \cup {Bits(n) \cup {h} :
                n \in 0..MaxLow,
                h \in {MaxHighBit - 20, MaxHighBit - 8, MaxHighBit - 7,
                       MaxHighBit}}

BaseWidthInputs == {Bits(1)} \cup {Bits(b) : b \in BaseWidths}

CardinalityInputs == {Bits(c) : c \in 1..MaxCardinality}

InitWidth ==
    /\ block = NoBlock
    /\ params = EmptyDict
    /\ params0 = EmptyDict
    /\ zeroed = FALSE
    /\ pc = "idle"
    /\ trace = <<>>
    /\ calls = [f \in Factories |-> NoCall]
    /\ \E P \in PlanesInputs, B \in BaseWidthInputs, C \in CardinalityInputs :
          wcalc = [planes |-> P, base_width |-> B, cardinality |-> C,
                   done |-> FALSE, width |-> {}]

\* width = int(math.floor(planes * (base_width / 64)) * cardinality)
ComputeWidth ==
    /\ ~wcalc.done
    /\ wcalc' = [wcalc EXCEPT
                   !.done = TRUE,
                   !.width = WidthBits(wcalc.planes, wcalc.base_width,
                                       wcalc.cardinality)]
    /\ UNCHANGED <<block, params, params0, zeroed, pc, trace, calls>>

FitsInt(S) == \A i \in S : i <= MaxIntBit \div 2

\* SelectiveKernelBottleneck(inplanes, planes, cardinality=..., base_width=...,
\* reduce_first=...) with the same planes, base_width and cardinality, where
\* the block record can hold them.
ConstructBottleneck ==
    /\ block = NoBlock
    /\ FitsInt(wcalc.planes)
    /\ FitsInt(wcalc.base_width)
    /\ FitsInt(wcalc.cardinality)
    /\ \E a \in HookArgs, inplanes \in 1..MaxInplanes,
          reduce_first \in 1..MaxReduceFirst :
          /\ a.kind = "Bottleneck"
          /\ a.drop_block = "None" /\ a.act_layer = "ReLU"
          /\ a.downsample = "None" /\ a.drop_path = "None"
          /\ a.sk_kwargs = NoneDict /\ ~a.use_se
          /\ LET b == [a EXCEPT !.inplanes = inplanes,
                                !.planes = ToInt(wcalc.planes),
                                !.base_width = ToInt(wcalc.base_width),
                                !.cardinality = ToInt(wcalc.cardinality),
                                !.reduce_first = reduce_first]
             IN  Construct(b, [n \in ParamNames(NewBlock(b)) |-> 1])

NextWidth == ComputeWidth \/ ConstructBottleneck

SpecWidth == InitWidth /\ [][NextWidth]_vars

---------------------------------------------------------------------------
(* Claim about the bottleneck width, checked under SpecWidth.              *)

\* floor(planes * base_width / 64) * cardinality, in exact arithmetic.
ExactWidth(P, B, C) ==
    BitMul(BitShift({i \in BitMul(P, B) : i >= 6}, -6), C)

\* The width a built bottleneck uses is the width computed from its
\* arguments: conv2 gives it and conv3 takes it.
WidthUsed ==
    (block.status = "ok" /\ block.kind = "Bottleneck") =>
        /\ block.conv3.in_channels = block.conv2.out_channels
        /\ Bits(block.args.planes) = wcalc.planes
        /\ Bits(block.args.base_width) = wcalc.base_width
        /\ Bits(block.args.cardinality) = wcalc.cardinality
        /\ Bits(block.conv2.out_channels) =
              ExactWidth(wcalc.planes, wcalc.base_width, wcalc.cardinality)
        /\ (block.args.base_width = 64 /\ block.args.cardinality = 1)
              => block.conv2.out_channels = block.args.planes

\* C7 as stated: for all positive integers planes, base_width and
\* cardinality the bottleneck width (output channels of conv2, input channels
\* of conv3) is floor(planes * base_width / 64) * cardinality, which is
\* planes when base_width = 64 and cardinality = 1.
C7_AsStated ==
    /\ WidthUsed
    /\ wcalc.done =>
          /\ wcalc.width =
                ExactWidth(wcalc.planes, wcalc.base_width, wcalc.cardinality)
          /\ (wcalc.base_width = {6} /\ wcalc.cardinality = {0})
                => wcalc.width = wcalc.planes

\* C7 amended: for all positive integers planes, base_width and cardinality
\* with planes * base_width < 2^53 the bottleneck width (output channels of
\* conv2, input channels of conv3) is
\* floor(planes * base_width / 64) * cardinality, which is planes when
\* base_width = 64 and cardinality = 1.
C7_Amended ==
    /\ WidthUsed
    /\ (wcalc.done /\ BitMax(BitMul(wcalc.planes, wcalc.base_width)) < 53) =>
          /\ wcalc.width =
                ExactWidth(wcalc.planes, wcalc.base_width, wcalc.cardinality)
          /\ (wcalc.base_width = {6} /\ wcalc.cardinality = {0})
                => wcalc.width = wcalc.planes

\* planes = 2^40 + 1, base_width = 96, cardinality = 2: the quotient
\* 1.5 * 2^40 + 1.5 is no integer and the width is 3 * 2^40 + 2.
C7_Witness ==
    /\ wcalc.done
    /\ wcalc.planes = {40, 0}
    /\ wcalc.base_width = {6, 5}
    /\ wcalc.cardinality = {1}
    /\ wcalc.width = {41, 40, 1}

---------------------------------------------------------------------------
(* Claims about construction, checked under Spec.                          *)

Built == block.status = "ok"

IsBasic == block.status # "none" /\ block.kind = "Basic"

IsBottleneck == block.status # "none" /\ block.kind = "Bottleneck"

NoSubLayer ==
    /\ block.conv1 = NoLayer
    /\ block.conv2 = NoLayer
    /\ block.se = NoLayer
    /\ block.act = NoLayer

\* C1: constructing SelectiveKernelBasic with cardinality other than 1 or
\* base_width other than 64 ends in an assertion error with no sub-layer
\* (conv1, conv2, se, act) created; with cardinality 1 and base_width 64 the
\* construction does not end in an assertion error.
C1_BasicFailsFast ==
    IsBasic =>
        /\ (block.args.cardinality # 1 \/ block.args.base_width # 64)
              => (block.status = "AssertionError" /\ NoSubLayer)
        /\ (block.args.cardinality = 1 /\ block.args.base_width = 64)
              => block.status # "AssertionError"

C1_Witness ==
    /\ IsBasic
    /\ block.args.cardinality = 1
    /\ block.args.base_width = 32
    /\ block.status = "AssertionError"

LastStage == IF block.kind = "Basic" THEN block.conv2 ELSE block.conv3

\* C2: the last convolution stage of a built SelectiveKernelBasic has
\* planes * 1 output channels and that of a built SelectiveKernelBottleneck
\* planes * 4, whatever inplanes, stride, dilation, reduce_first, cardinality
\* and base_width are.
C2_OutputChannels ==
    Built =>
        LastStage.out_channels =
            block.args.planes * (IF block.kind = "Basic" THEN 1 ELSE 4)

C2_Witness ==
    /\ Built
    /\ block.kind = "Bottleneck"
    /\ block.args.inplanes # block.args.planes
    /\ block.args.stride = 2
    /\ block.args.cardinality = 2
    /\ block.args.base_width = 32
    /\ block.args.reduce_first = 2
    /\ block.conv3.out_channels = 4 * block.args.planes

Geometry == {"stride", "dilation", "groups"}

\* C9: in SelectiveKernelBottleneck stride, dilation (first_dilation, or
\* dilation when first_dilation is not given) and groups = cardinality are
\* passed to conv2 only; conv1 and conv3 are built with kernel size 1 and no
\* stride, dilation or groups argument.
C9_GeometryAtConv2 ==
    (Built /\ block.kind = "Bottleneck") =>
        LET a == block.args
        IN  /\ block.conv2.kwargs.stride = a.stride
            /\ block.conv2.kwargs.dilation =
                  (IF a.first_dilation # 0 THEN a.first_dilation ELSE a.dilation)
            /\ block.conv2.kwargs.groups = a.cardinality
            /\ block.conv1.kwargs.kernel_size = 1
            /\ block.conv3.kwargs.kernel_size = 1
            /\ DOMAIN block.conv1.kwargs \cap Geometry = {}
            /\ DOMAIN block.conv3.kwargs \cap Geometry = {}

C9_Witness ==
    /\ Built
    /\ block.kind = "Bottleneck"
    /\ block.args.stride = 2
    /\ block.args.dilation = 2
    /\ block.args.first_dilation = 0
    /\ block.args.cardinality = 3
    /\ block.conv2.kwargs.groups = 3

\* Each stage takes the channels the previous stage gives; the first takes
\* inplanes.
ChannelsChain ==
    /\ block.conv1.in_channels = block.args.inplanes
    /\ block.conv2.in_channels = block.conv1.out_channels
    /\ block.kind = "Bottleneck" =>
          block.conv3.in_channels = block.conv2.out_channels

\* C10 as stated: in every built block consecutive stages are
\* channel-compatible, and in SelectiveKernelBottleneck the input and the
\* output channel counts of conv2 are both divisible by cardinality.
C10_AsStated ==
    Built =>
        /\ ChannelsChain
        /\ block.kind = "Bottleneck" =>
              /\ block.conv2.in_channels % block.args.cardinality = 0
              /\ block.conv2.out_channels % block.args.cardinality = 0

\* C10 amended: consecutive stages are channel-compatible and the output
\* channel count of conv2 is divisible by cardinality; its input channel
\* count, width // reduce_first, is divisible by cardinality when
\* reduce_first divides width / cardinality, the block's
\* floor(planes * base_width / 64).
C10_Amended ==
    Built =>
        /\ ChannelsChain
        /\ block.kind = "Bottleneck" =>
              LET a == block.args
              IN  /\ block.conv2.out_channels % a.cardinality = 0
                  /\ (block.conv2.out_channels \div a.cardinality)
                          % a.reduce_first = 0
                        => block.conv2.in_channels % a.cardinality = 0

C10_Witness ==
    /\ Built
    /\ block.kind = "Bottleneck"
    /\ block.args.cardinality = 3
    /\ block.args.reduce_first = 2
    /\ block.args.planes = 2
    /\ block.args.base_width = 64
    /\ block.conv2.in_channels = 3
    /\ block.conv2.out_channels = 6

---------------------------------------------------------------------------
(* Claim about zero_init_last_bn, checked under SpecInit.                  *)

LastStageName == IF block.kind = "Basic" THEN "conv2" ELSE "conv3"

\* C4: after zero_init_last_bn on a freshly constructed block the scale
\* (weight) of the final normalization layer (conv2.bn for Basic, conv3.bn
\* for Bottleneck) is all zeros and every other parameter of the block,
\* the bias of that layer included, is as construction left it.
C4_ZeroInitFrame ==
    (Built /\ zeroed) =>
        LET last == <<LastStageName, "bn", "weight">>
        IN  /\ DOMAIN params = DOMAIN params0
            /\ last \in DOMAIN params
            /\ params[last] = 0
            /\ \A n \in DOMAIN params \ {last} : params[n] = params0[n]

C4_Witness ==
    /\ Built
    /\ zeroed
    /\ block.kind = "Bottleneck"
    /\ params0[<<"conv3", "bn", "weight">>] = 1
    /\ params0[<<"conv3", "bn", "bias">>] = 1
    /\ params0[<<"conv1", "bn", "weight">>] = 1
    /\ params[<<"conv3", "bn", "weight">>] = 0
    /\ params[<<"conv3", "bn", "bias">>] = 1

---------------------------------------------------------------------------
(* Claim about the forward pass, checked under SpecForward.                *)

StageNames ==
    IF block.kind = "Basic" THEN <<"conv1", "conv2">>
    ELSE <<"conv1", "conv2", "conv3">>

\* The place of an operation in the claimed order.
Place(e) ==
    CASE e = <<"block", "se">> -> 40
      [] e = <<"block", "drop_path">> -> 50
      [] e = <<"block", "downsample">> -> 60
      [] e = <<"block", "add">> -> 70
      [] e = <<"block", "act">> -> 80
      [] OTHER ->
           (CASE e[1] = "conv1" -> 10 [] e[1] = "conv2" -> 20 [] OTHER -> 30)
           + (CASE e[2] = "conv" -> 1 [] e[2] = "bn" -> 2 [] OTHER -> 3)

Applied(e) == \E i \in 1..Len(trace) : trace[i] = e

Index(e) == CHOOSE i \in 1..Len(trace) : trace[i] = e

\* C8: the forward pass applies the convolution stages in index order, then
\* squeeze-excite, drop-path and the downsample of the saved input, each if
\* configured, then the residual add, then the block activation.  The last
\* stage is built with its activation disabled and the earlier stages with
\* the block's act_layer, so no activation lies between the last
\* normalization and the add, and the block activation is applied once,
\* after the add.
C8_ForwardOrder ==
    Built =>
        LET a == block.args
            n == Len(StageNames)
            last == StageNames[n]
        IN  /\ block[last].kwargs.act_layer = "None"
            /\ \A k \in 1..(n - 1) :
                  block[StageNames[k]].kwargs.act_layer = a.act_layer
            /\ \A i, j \in 1..Len(trace) :
                  i < j => Place(trace[i]) < Place(trace[j])
            /\ pc = "done" =>
                  /\ \A k \in 1..n : /\ Applied(<<StageNames[k], "conv">>)
                                     /\ Applied(<<StageNames[k], "bn">>)
                  /\ \A k \in 1..(n - 1) : Applied(<<StageNames[k], "act">>)
                  /\ Applied(<<"block", "se">>) <=> a.use_se
                  /\ Applied(<<"block", "drop_path">>) <=> a.drop_path # "None"
                  /\ Applied(<<"block", "downsample">>) <=> a.downsample # "None"
                  /\ Applied(<<"block", "add">>)
                  /\ trace[Len(trace)] = <<"block", "act">>
                  /\ \A i \in 1..Len(trace) :
                        (Index(<<last, "bn">>) < i /\ i < Index(<<"block", "add">>))
                            => trace[i][2] # "act"

C8_Witness ==
    /\ Built
    /\ pc = "done"
    /\ block.kind = "Bottleneck"
    /\ block.args.use_se
    /\ block.args.drop_path = "DropPath"
    /\ block.args.downsample = "Downsample"
    /\ block.args.act_layer = "SiLU"
    /\ Len(trace) = 13

---------------------------------------------------------------------------
(* Factory functions.                                                      *)

MaxNumClasses == 2
MaxInChans == 3

\* Bug: the class count of a checkpoint with a background class.
_cfgBackgroundClass(url, kwargs) ==
    kwargs @@
    [url |-> url, num_classes |-> 1001, input_size |-> <<3, 224, 224>>,
     pool_size |-> <<7, 7>>, crop_pct |-> "0.875",
     interpolation |-> "bilinear", mean |-> "IMAGENET_DEFAULT_MEAN",
     std |-> "IMAGENET_DEFAULT_STD", first_conv |-> "conv1",
     classifier |-> "fc"]

\* {'url': url, ..., **kwargs}: a key of kwargs replaces the default.
_cfg(url, kwargs) ==
    kwargs @@
    [url |-> url, num_classes |-> 1000, input_size |-> <<3, 224, 224>>,
     pool_size |-> <<7, 7>>, crop_pct |-> "0.875",
     interpolation |-> "bilinear", mean |-> "IMAGENET_DEFAULT_MEAN",
     std |-> "IMAGENET_DEFAULT_STD", first_conv |-> "conv1",
     classifier |-> "fc"]

default_cfgs ==
    [skresnet18 |-> _cfg("", EmptyDict), skresnet26d |-> _cfg("", EmptyDict)]

\* What a factory passes to ResNet besides **kwargs, and the configuration
\* it attaches.
Plan(default_cfg, block_type, layers, keywords) ==
    [default_cfg |-> default_cfg, block |-> block_type, layers |-> layers,
     keywords |-> keywords]

skresnet26d(num_classes, in_chans) ==
    Plan(default_cfgs["skresnet26d"], "SelectiveKernelBottleneck",
         <<2, 2, 2, 2>>,
         [stem_width |-> 32, stem_type |-> "deep", avg_down |-> TRUE,
          num_classes |-> num_classes, in_chans |-> in_chans,
          block_args |-> [sk_kwargs |-> [keep_3x3 |-> FALSE]]])

skresnet18(num_classes, in_chans) ==
    Plan(default_cfgs["skresnet18"], "SelectiveKernelBasic", <<2, 2, 2, 2>>,
         [num_classes |-> num_classes, in_chans |-> in_chans,
          block_args |-> [sk_kwargs |-> [min_attn_channels |-> 16]]])

\* Bug: min_attn_channels is dropped where split_input is added.
sksresnet18SplitOnly(num_classes, in_chans) ==
    Plan(default_cfgs["skresnet18"], "SelectiveKernelBasic", <<2, 2, 2, 2>>,
         [num_classes |-> num_classes, in_chans |-> in_chans,
          block_args |-> [sk_kwargs |-> [split_input |-> TRUE]]])

sksresnet18(num_classes, in_chans) ==
    Plan(default_cfgs["skresnet18"], "SelectiveKernelBasic", <<2, 2, 2, 2>>,
         [num_classes |-> num_classes, in_chans |-> in_chans,
          block_args |-> [sk_kwargs |-> [min_attn_channels |-> 16,
                                          split_input |-> TRUE]]])

PlanOf(f, req) ==
    CASE f = "skresnet26d" -> skresnet26d(req.num_classes, req.in_chans)
      [] f = "skresnet18" -> skresnet18(req.num_classes, req.in_chans)
      [] f = "sksresnet18" -> sksresnet18(req.num_classes, req.in_chans)

\* Bug: the weights are loaded whether or not pretrained is set.
LoadAlways(pretrained, model, default_cfg, num_classes, in_chans) ==
    << [model |-> model, cfg |-> default_cfg, num_classes |-> num_classes,
        in_chans |-> in_chans] >>

\* if pretrained: load_pretrained(model, default_cfg, num_classes, in_chans)
\* The calls made, each with the model as it is when passed.
LoadPretrained(pretrained, model, default_cfg, num_classes, in_chans) ==
    IF pretrained
    THEN << [model |-> model, cfg |-> default_cfg,
             num_classes |-> num_classes, in_chans |-> in_chans] >>
    ELSE <<>>

\* Pass-through overrides: none, one no factory sets, one skresnet26d sets
\* itself, one every factory sets itself.
Overrides ==
    {EmptyDict, [drop_rate |-> 1], [stem_width |-> 64],
     [block_args |-> EmptyDict]}

Requests ==
    [pretrained : BOOLEAN, num_classes : (1..MaxNumClasses) \cup {1000},
     in_chans : 1..MaxInChans, kwargs : Overrides]

NoModel == [cls |-> "None", attrs |-> EmptyDict]

\* The three factories, each called with the same arguments.
InitFactory ==
    /\ block = NoBlock
    /\ params = EmptyDict
    /\ params0 = EmptyDict
    /\ zeroed = FALSE
    /\ pc = "idle"
    /\ trace = <<>>
    /\ wcalc = NoWidth
    /\ \E req \in Requests :
          calls = [f \in Factories |->
                     [pc |-> "start", req |-> req, builder |-> <<>>,
                      loader |-> <<>>, model |-> NoModel, result |-> NoModel]]

\* model = ResNet(block, layers, <keywords>, **kwargs)
FactoryBuild(f) ==
    LET c == calls[f]
        plan == PlanOf(f, c.req)
    IN  /\ c.pc = "start"
        /\ calls' =
             IF KeywordClash(plan.keywords, c.req.kwargs, EmptyDict)
             THEN [calls EXCEPT ![f].pc = "TypeError"]
             ELSE [calls EXCEPT
                     ![f].pc = "built",
                     ![f].builder =
                        << [block |-> plan.block, layers |-> plan.layers,
                            kwargs |-> Keywords(plan.keywords, c.req.kwargs,
                                                EmptyDict)] >>,
                     ![f].model = [cls |-> "ResNet", attrs |-> EmptyDict]]
        /\ UNCHANGED <<block, params, params0, zeroed, pc, trace, wcalc>>

\* model.default_cfg = default_cfg
FactoryAttach(f) ==
    LET c == calls[f]
        plan == PlanOf(f, c.req)
    IN  /\ c.pc = "built"
        /\ calls' = [calls EXCEPT
                       ![f].pc = "attached",
                       ![f].model.attrs =
                          ("default_cfg" :> plan.default_cfg) @@ c.model.attrs]
        /\ UNCHANGED <<block, params, params0, zeroed, pc, trace, wcalc>>

\* if pretrained: load_pretrained(model, default_cfg, num_classes, in_chans)
FactoryLoad(f) ==
    LET c == calls[f]
        plan == PlanOf(f, c.req)
    IN  /\ c.pc = "attached"
        /\ calls' = [calls EXCEPT
                       ![f].pc = "loaded",
                       ![f].loader =
                          c.loader \o
                          LoadPretrained(c.req.pretrained, c.model,
                                         plan.default_cfg, c.req.num_classes,
                                         c.req.in_chans)]
        /\ UNCHANGED <<block, params, params0, zeroed, pc, trace, wcalc>>

\* return model
FactoryReturn(f) ==
    LET c == calls[f]
    IN  /\ c.pc = "loaded"
        /\ calls' = [calls EXCEPT ![f].pc = "returned", ![f].result = c.model]
        /\ UNCHANGED <<block, params, params0, zeroed, pc, trace, wcalc>>

NextFactory ==
    \E f \in Factories :
        \/ FactoryBuild(f)
        \/ FactoryAttach(f)
        \/ FactoryLoad(f)
        \/ FactoryReturn(f)

SpecFactory == InitFactory /\ [][NextFactory]_vars

---------------------------------------------------------------------------
(* Claims about the factories, checked under SpecFactory.                  *)

Returned(f) == calls[f].pc = "returned"

AttachedCfg(f) == calls[f].result.attrs["default_cfg"]

\* C3 as stated: the default_cfg of the model each factory returns has
\* num_classes equal to the num_classes argument and an input_size whose
\* channel component equals the in_chans argument.
C3_AsStated ==
    \A f \in Factories :
        Returned(f) =>
            /\ "default_cfg" \in DOMAIN calls[f].result.attrs
            /\ {"num_classes", "input_size"} \subseteq DOMAIN AttachedCfg(f)
            /\ AttachedCfg(f).num_classes = calls[f].req.num_classes
            /\ AttachedCfg(f).input_size[1] = calls[f].req.in_chans

\* C3 amended: the default_cfg of the model each factory returns has
\* num_classes 1000 and input_size (3, 224, 224) whatever the arguments are;
\* they agree with the num_classes and in_chans arguments only when the
\* caller passes 1000 and 3.
C3_Amended ==
    \A f \in Factories :
        Returned(f) =>
            /\ "default_cfg" \in DOMAIN calls[f].result.attrs
            /\ {"num_classes", "input_size"} \subseteq DOMAIN AttachedCfg(f)
            /\ AttachedCfg(f).num_classes = 1000
            /\ AttachedCfg(f).input_size = <<3, 224, 224>>
            /\ (/\ AttachedCfg(f).num_classes = calls[f].req.num_classes
                /\ AttachedCfg(f).input_size[1] = calls[f].req.in_chans)
               <=> (calls[f].req.num_classes = 1000 /\ calls[f].req.in_chans = 3)

C3_Witness ==
    /\ \A f \in Factories : Returned(f)
    /\ calls["skresnet26d"].req.num_classes = 2
    /\ calls["skresnet26d"].req.in_chans = 1
    /\ AttachedCfg("skresnet26d").num_classes = 1000

Called(f) == calls[f].builder # <<>>

\* C5: called with the same arguments, skresnet18 and sksresnet18 pass the
\* same block type SelectiveKernelBasic, the same depths [2, 2, 2, 2] and the
\* same keywords to the backbone builder and attach the same default_cfg;
\* only the sk_kwargs of block_args differ, sksresnet18 adding
\* split_input = True.
C5_SameButSplitInput ==
    (Called("skresnet18") /\ Called("sksresnet18")) =>
        LET p == calls["skresnet18"].builder[1]
            s == calls["sksresnet18"].builder[1]
        IN  /\ calls["skresnet18"].req = calls["sksresnet18"].req
            /\ p.block = "SelectiveKernelBasic"
            /\ s.block = "SelectiveKernelBasic"
            /\ p.layers = <<2, 2, 2, 2>>
            /\ s.layers = <<2, 2, 2, 2>>
            /\ DOMAIN p.kwargs = DOMAIN s.kwargs
            /\ DOMAIN p.kwargs \cap {"stem_type", "avg_down"} = {}
            /\ \A k \in DOMAIN p.kwargs \ {"block_args"} :
                  p.kwargs[k] = s.kwargs[k]
            /\ DOMAIN p.kwargs.block_args = {"sk_kwargs"}
            /\ DOMAIN s.kwargs.block_args = {"sk_kwargs"}
            /\ "split_input" \notin DOMAIN p.kwargs.block_args.sk_kwargs
            /\ s.kwargs.block_args.sk_kwargs =
                  p.kwargs.block_args.sk_kwargs @@ [split_input |-> TRUE]
            /\ LET m == calls["skresnet18"].model.attrs
                   n == calls["sksresnet18"].model.attrs
               IN  ("default_cfg" \in DOMAIN m /\ "default_cfg" \in DOMAIN n)
                       => m["default_cfg"] = n["default_cfg"]

C5_Witness ==
    /\ Returned("skresnet18")
    /\ Returned("sksresnet18")
    /\ calls["skresnet18"].req.kwargs = [stem_width |-> 64]
    /\ calls["skresnet18"].req.num_classes = 2
    /\ calls["sksresnet18"].builder[1].kwargs.block_args.sk_kwargs.split_input

\* C6: a factory calls the weight loader once if pretrained is true and
\* never otherwise, with (the built model, the architecture's configuration
\* dict, num_classes, in_chans); the call comes after default_cfg is attached
\* to the model and before the model is returned.
C6_LoaderOnce ==
    \A f \in Factories :
        LET c == calls[f]
        IN  /\ c.pc \in {"start", "built", "attached", "TypeError"}
                  => c.loader = <<>>
            /\ c.pc \in {"loaded", "returned"} =>
                  /\ Len(c.loader) = (IF c.req.pretrained THEN 1 ELSE 0)
                  /\ c.req.pretrained =>
                        /\ c.loader[1].model = c.model
                        /\ c.loader[1].model.cls = "ResNet"
                        /\ "default_cfg" \in DOMAIN c.loader[1].model.attrs
                        /\ c.loader[1].cfg =
                              default_cfgs[IF f = "skresnet26d" THEN "skresnet26d"
                                           ELSE "skresnet18"]
                        /\ c.loader[1].cfg = c.model.attrs["default_cfg"]
                        /\ c.loader[1].num_classes = c.req.num_classes
                        /\ c.loader[1].in_chans = c.req.in_chans
            /\ c.pc = "returned" => c.result = c.model

C6_Witness ==
    /\ calls["skresnet26d"].pc = "returned"
    /\ calls["skresnet26d"].req.pretrained
    /\ calls["skresnet26d"].req.num_classes = 2
    /\ Len(calls["skresnet26d"].loader) = 1
    /\ calls["skresnet18"].pc = "attached"
    /\ calls["skresnet18"].loader = <<>>

====
